---- MODULE Spec2Model ----
(***************************************************************************)
(* A model of disttop.py: top run over ssh on several hosts through a      *)
(* multiprocessing pool, merged, sorted and drawn once per refresh cycle.  *)
(*                                                                         *)
(* Text is modelled as sequences of one-character strings, so that the     *)
(* string operations of the program (split, strip, join, float) are        *)
(* computed and not assumed.                                               *)
(***************************************************************************)
EXTENDS Integers, Sequences, FiniteSets, TLC

\* ------------------------------------------------------------------ bounds
\* Largest number of hosts on the command line (Spec, FairSpec, FairSpecAll).
MaxHosts == 2
\* Largest number of hosts of a cycle handed to the merge step (MergeSpec).
MaxMergeHosts == 3

\* The hosts of a cycle whose rendering is examined alone, and the rows of
\* the tallest terminal it is rendered on.
MaxRenderHosts == 2
MaxHeight == 6

\* The words of the longest command of a process line that is parsed alone.
MaxTailWords == 3

\* ------------------------------------------------------------------ text
Digits == {"0", "1", "2", "3", "4", "5", "6", "7", "8", "9"}
\* The whitespace characters of the modelled alphabet.
Whitespace == {" ", "\t", "\n"}

RECURSIVE Cat(_)
\* Concatenation of a sequence of texts.
Cat(ss) == IF ss = <<>> THEN <<>> ELSE Head(ss) \o Cat(Tail(ss))

\* The positions of s that hold no whitespace.
Solid(s) == {i \in 1..Len(s) : s[i] \notin Whitespace}

\* The k-th smallest element of a finite set of integers.
Nth(S, k) == CHOOSE x \in S : Cardinality({y \in S : y < x}) = k - 1

\* str.lstrip(): drop leading whitespace.
Lstrip(s) ==
  IF Solid(s) = {} THEN <<>>
  ELSE SubSeq(s, Nth(Solid(s), 1), Len(s))

\* str.rstrip(): drop trailing whitespace.
Rstrip(s) ==
  IF Solid(s) = {} THEN <<>>
  ELSE SubSeq(s, 1, Nth(Solid(s), Cardinality(Solid(s))))

\* str.strip(), used by SSH_Error.__init__.
Strip(s) == Rstrip(Lstrip(s))

\* str.split() without argument: the maximal runs of non-whitespace.
Split(s) ==
  LET starts == {i \in Solid(s) : i = 1 \/ (i - 1) \notin Solid(s)}
      ends == {i \in Solid(s) : i = Len(s) \/ (i + 1) \notin Solid(s)}
  IN  [k \in 1..Cardinality(starts) |-> SubSeq(s, Nth(starts, k), Nth(ends, k))]

\* str.splitlines(): the lines of s, without their line ends; a final line
\* end opens no empty last line.
SplitLines(s) ==
  LET nls == {i \in 1..Len(s) : s[i] = "\n"}
      starts == {i \in 1..Len(s) : i = 1 \/ (i - 1) \in nls}
      EndOf(b) ==
        IF \E j \in nls : j >= b
        THEN (CHOOSE j \in nls : j >= b /\ \A m \in nls : m >= b => j <= m) - 1
        ELSE Len(s)
  IN  [k \in 1..Cardinality(starts) |-> SubSeq(s, Nth(starts, k), EndOf(Nth(starts, k)))]

RECURSIVE Join(_, _)
\* sep.join(ss).
Join(sep, ss) ==
  IF ss = <<>> THEN <<>>
  ELSE IF Len(ss) = 1 THEN ss[1]
  ELSE ss[1] \o sep \o Join(sep, Tail(ss))

\* str.isnumeric() of one character of the modelled alphabet.
IsNumeric(c) == c \in Digits

DigitVal(c) ==
  CASE c = "0" -> 0 [] c = "1" -> 1 [] c = "2" -> 2 [] c = "3" -> 3
    [] c = "4" -> 4 [] c = "5" -> 5 [] c = "6" -> 6 [] c = "7" -> 7
    [] c = "8" -> 8 [] c = "9" -> 9

RECURSIVE Pow10(_)
Pow10(n) == IF n = 0 THEN 1 ELSE 10 * Pow10(n - 1)

RECURSIVE DigitsVal(_, _)
\* The number a run of decimal digits denotes, after the digits read so far.
DigitsVal(s, acc) ==
  IF s = <<>> THEN acc ELSE DigitsVal(Tail(s), 10 * acc + DigitVal(Head(s)))

AllDigits(s) == \A i \in 1..Len(s) : s[i] \in Digits

\* The position of the first "." of s, or 0.
DotAt(s) ==
  IF \E i \in 1..Len(s) : s[i] = "."
  THEN CHOOSE i \in 1..Len(s) : s[i] = "." /\ \A j \in 1..(i - 1) : s[j] # "."
  ELSE 0

\* float(text) on plain decimal notation: surrounding whitespace is allowed,
\* then digits with at most one "." and at least one digit.  The value is
\* num / 10^exp.  Anything else raises ValueError (ok = FALSE).  Signs,
\* exponents, "inf" and "nan" are outside the modelled alphabet.
ParseFloat(text) ==
  LET s == Strip(text)
      d == DotAt(s)
      ip == IF d = 0 THEN s ELSE SubSeq(s, 1, d - 1)
      fp == IF d = 0 THEN <<>> ELSE SubSeq(s, d + 1, Len(s))
  IN  IF AllDigits(ip) /\ AllDigits(fp) /\ Len(ip) + Len(fp) > 0
      THEN [ok |-> TRUE, num |-> DigitsVal(ip \o fp, 0), exp |-> Len(fp)]
      ELSE [ok |-> FALSE, num |-> 0, exp |-> 0]

\* x < y and x = y on parsed floats.
FloatLess(x, y) == x.num * Pow10(y.exp) < y.num * Pow10(x.exp)
FloatEq(x, y) == x.num * Pow10(y.exp) = y.num * Pow10(x.exp)

\* ------------------------------------------------------------------ inputs
\* Host names of the command line.
HostA == <<"h", "o", "s", "t", "A">>
HostB == <<"h", "o", "s", "t", "B">>
HostC == <<"h", "o", "s", "t", "C">>
HostD == <<"h", "o", "s", "t", "D">>
HostE == <<"h", "o", "s", "t", "E">>
HostNames == <<HostA, HostB, HostC, HostD, HostE>>

\* Pieces of the text that top prints.
Nl == <<"\n">>
TopSummary == <<"t", "o", "p", " ", "-", " ", "1", "0", ":", "0", "0", " ", "u", "p", " ", "1", " ", "d", "a", "y">>
TopHeader == <<" ", " ", "P", "I", "D", " ", "U", "S", "E", "R", " ", "P", "R", " ", "N", "I", " ", "V", "I", "R", "T", " ", "R", "E", "S", " ", "S", "H", "R", " ", "S", " ", "%", "C", "P", "U", " ", "%", "M", "E", "M", " ", "T", "I", "M", "E", "+", " ", "C", "O", "M", "M", "A", "N", "D">>
LineLead == <<" ", " ", " ">>
LineHead == <<" ", "r", "o", "o", "t", " ", "2", "0", " ", "0", " ", "1", " ", "1", " ", "1", " ", "S", " ">>
LineMid == <<" ", "0", ".", "1", " ", "0", ":", "0", "1", " ">>
\* A process line that stops after five fields.
ShortLine == <<" ", " ", " ", " ", "7", " ", "r", "o", "o", "t", " ", "2", "0", " ", "0", " ", "1">>
Cpu9_5 == <<"9", ".", "5">>
Cpu9_50 == <<"9", ".", "5", "0">>
Cpu10 == <<"1", "0", ".", "0">>
Cpu90 == <<"9", "0">>
\* A %CPU column printed with a decimal comma.
CpuComma == <<"5", ",", "0">>
CmdSh == <<"s", "h">>
CmdTop == <<"t", "o", "p", " ", "-", "b">>
CmdWide == <<"a", " ", " ", "b">>
ErrTimeout == <<"t", "i", "m", "e", "o", "u", "t", "\n">>

\* One process line of top: right-aligned pid, fixed columns, %CPU, command.
TopLine(pid, cpu, cmd) == Cat(<<LineLead, pid, LineHead, cpu, LineMid, cmd>>)

\* What one run of "ssh host top -bsn 1" can give back: exit status, stdout
\* and stderr.
ReplyTimeout == [rc |-> 255, out |-> <<>>, err |-> ErrTimeout]
ReplyQuietFail == [rc |-> 1, out |-> TopLine(<<"8">>, Cpu10, CmdSh) \o Nl, err |-> <<>>]
ReplyTen ==
  [rc |-> 0, err |-> <<>>,
   out |-> Cat(<<TopSummary, Nl, Nl, TopHeader, Nl, TopLine(<<"1">>, Cpu10, CmdSh), Nl>>)]
ReplyNinety ==
  [rc |-> 0, err |-> <<>>, out |-> Cat(<<TopLine(<<"2">>, Cpu90, CmdTop), Nl>>)]
ReplyTies ==
  [rc |-> 0, err |-> <<>>,
   out |-> Cat(<<TopHeader, Nl, TopLine(<<"3">>, Cpu9_5, CmdWide), Nl,
                 TopLine(<<"4">>, Cpu10, CmdSh), Nl,
                 TopLine(<<"5">>, Cpu9_50, CmdTop), Nl>>)]
ReplyShort ==
  [rc |-> 0, err |-> <<>>,
   out |-> Cat(<<TopLine(<<"6">>, Cpu10, CmdSh), Nl, ShortLine, Nl>>)]
ReplyBadCpu ==
  [rc |-> 0, err |-> <<>>, out |-> Cat(<<TopLine(<<"9">>, CpuComma, CmdSh), Nl>>)]
ReplyEmpty == [rc |-> 0, err |-> <<>>, out |-> <<>>]

\* Every reply, for the steps taken alone (MergeSpec).
AllReplies ==
  {ReplyTimeout, ReplyQuietFail, ReplyTen, ReplyNinety, ReplyTies, ReplyShort,
   ReplyBadCpu, ReplyEmpty}

\* The replies of the running session: a failure, a snapshot, a line that
\* is too short and a %CPU that is no number.
Replies == {ReplyTimeout, ReplyTies, ReplyShort, ReplyBadCpu}

\* The first eleven columns of a process line of top.
HeadFields ==
  <<<<"7">>, <<"r", "o", "o", "t">>, <<"2", "0">>, <<"0">>, <<"1">>, <<"1">>,
    <<"1">>, <<"S">>, Cpu10, <<"0", ".", "1">>, <<"0", ":", "0", "1">>>>

\* What separates the words of a command: a space, two spaces, a tab.
Seps == {<<" ">>, <<" ", " ">>, <<"\t">>}

\* The i-th word of a command: i letters.
Word(i) == [j \in 1..i |-> "x"]

\* The command columns of top: one to MaxTailWords words with any of the
\* separators between them, with or without a space at the end.
ProbeTails ==
  UNION {{Cat([k \in 1..(2 * w - 1) |->
                 IF k % 2 = 1 THEN Word((k + 1) \div 2) ELSE sep[k \div 2]]) \o trail :
            sep \in [1..(w - 1) -> Seps], trail \in {<<>>, <<" ">>}} :
         w \in 1..MaxTailWords}

\* A process line of the first m columns followed by the command tail.
ProbeLine(m, tail) ==
  LineLead \o Join(<<" ">>, SubSeq(HeadFields, 1, m))
    \o (IF tail = <<>> THEN <<>> ELSE <<" ">> \o tail)

\* The process lines that are parsed alone: all columns and a command, or
\* only the first m columns.
ProbeLines ==
  {ProbeLine(Len(HeadFields), tail) : tail \in ProbeTails}
    \cup {ProbeLine(m, <<>>) : m \in 1..Len(HeadFields)}

\* The replies of the fetch that is examined alone: top's output with one
\* of the lines, with a whole line before a short one, and the failures of
\* ssh with and without text on stdout and stderr.
ProbeReplies ==
  {[rc |-> 0, err |-> <<>>, out |-> Cat(<<TopHeader, Nl, line, Nl>>)] : line \in ProbeLines}
    \cup {[rc |-> 0, err |-> <<>>,
           out |-> Cat(<<TopLine(<<"6">>, Cpu10, CmdSh), Nl, ProbeLine(5, <<>>), Nl>>)]}
    \cup {[rc |-> rc, err |-> err, out |-> out] :
             rc \in {1, 255},
             err \in {<<>>, ErrTimeout},
             out \in {<<>>, TopLine(<<"8">>, Cpu10, CmdSh) \o Nl}}

\* ------------------------------------------------------------------ ssh
\* The reason calltop reports when ssh wrote nothing to stderr.
UnkownError == <<"U", "n", "k", "o", "w", "n", " ", "E", "r", "r", "o", "r">>

\* SSH_Error(error, host): the error text is stripped.
SSH_Error(error, host) == [error |-> Strip(error), host |-> host]

\* calltop(host) on a reply of ssh: raises SSH_Error on a non-zero exit
\* status, returns the decoded stdout otherwise.
calltop(host, reply) ==
  IF reply.rc # 0
  THEN [raised |-> TRUE,
        exc |-> SSH_Error(IF reply.err # <<>> THEN reply.err ELSE UnkownError, host)]
  ELSE [raised |-> FALSE, out |-> reply.out]

\* ------------------------------------------------------------------ top
\* The test of Process.__init__ as it would be if it let eleven fields pass.
TooFewFieldsBelow11(data) == Len(Split(data)) < 11

\* Process.__init__ exits the process when the line has under 12 fields.
TooFewFields(data) == Len(Split(data)) < 12

\* Process as it would be if the command began one field later.
ProcessFrom13(host, data) ==
  LET fields == Split(data)
  IN  [host |-> host, pid |-> fields[1], user |-> fields[2], pr |-> fields[3],
       nice |-> fields[4], virt |-> fields[5], res |-> fields[6],
       shr |-> fields[7], s |-> fields[8], cpu |-> fields[9],
       mem |-> fields[10], time |-> fields[11],
       cmd |-> Join(<<" ">>, SubSeq(fields, 13, Len(fields)))]

\* Process(host, data) for a line of at least 12 fields.
Process(host, data) ==
  LET fields == Split(data)
  IN  [host |-> host, pid |-> fields[1], user |-> fields[2], pr |-> fields[3],
       nice |-> fields[4], virt |-> fields[5], res |-> fields[6],
       shr |-> fields[7], s |-> fields[8], cpu |-> fields[9],
       mem |-> fields[10], time |-> fields[11],
       cmd |-> Join(<<" ">>, SubSeq(fields, 12, Len(fields)))]

\* The lines of top's output that getprocs turns into processes: stripped
\* of leading whitespace, not empty, starting with a digit.
ProcLines(out) ==
  LET lines == SplitLines(out)
      sl == [i \in 1..Len(lines) |-> Lstrip(lines[i])]
      IsProc(l) == l # <<>> /\ IsNumeric(l[1])
  IN  SelectSeq(sl, IsProc)

\* The text of the 'broken' entry of a host.
BrokenText(host, error) == Cat(<<host, <<":", " ", "'">>, error, <<"'">>>>)

\* getprocs as it would be if the failure were added to a result that also
\* carries a list of processes.
getprocsBoth(host, reply) ==
  LET r == calltop(host, reply)
  IN  IF r.raised
      THEN [broken |-> BrokenText(host, r.exc.error), procs |-> <<>>]
      ELSE LET ls == ProcLines(r.out)
               bad == {i \in 1..Len(ls) : TooFewFields(ls[i])}
           IN  IF bad # {}
               THEN [exit |-> 1, host |-> host,
                     line |-> ls[CHOOSE i \in bad : \A j \in bad : i <= j]]
               ELSE [procs |-> [i \in 1..Len(ls) |-> Process(host, ls[i])]]

\* getprocs(host) on a reply of ssh.  The result is the dictionary it
\* returns, {'broken': text} or {'procs': list}; when Process.__init__ calls
\* sys.exit(1) there is no result: exit is the status and line the line
\* written to stderr.
getprocs(host, reply) ==
  LET r == calltop(host, reply)
  IN  IF r.raised
      THEN [broken |-> BrokenText(host, r.exc.error)]
      ELSE LET ls == ProcLines(r.out)
               bad == {i \in 1..Len(ls) : TooFewFields(ls[i])}
           IN  IF bad # {}
               THEN [exit |-> 1, host |-> host,
                     line |-> ls[CHOOSE i \in bad : \A j \in bad : i <= j]]
               ELSE [procs |-> [i \in 1..Len(ls) |-> Process(host, ls[i])]]

Exited(r) == "exit" \in DOMAIN r

\* getprocs on every host and every reply, computed once.
GetprocsOf ==
  [h \in {HostNames[i] : i \in 1..Len(HostNames)}, r \in AllReplies \cup ProbeReplies |->
     getprocs(h, r)]

\* The %CPU texts of the processes getprocs can return, and float() of each,
\* computed once.
CpuTexts ==
  UNION {{GetprocsOf[x].procs[k].cpu : k \in 1..Len(GetprocsOf[x].procs)} :
           x \in {y \in DOMAIN GetprocsOf : "procs" \in DOMAIN GetprocsOf[y]}}
FloatOf == [t \in CpuTexts |-> ParseFloat(t)]

\* ------------------------------------------------------------------ merge
IsGood(r) == "procs" \in DOMAIN r
IsBroken(r) == "broken" \in DOMAIN r

\* The partition as it would be if one failed host emptied the list of
\* good results.
GoodUnlessBroken(results) ==
  IF \E i \in 1..Len(results) : IsBroken(results[i])
  THEN <<>>
  ELSE LET g == SelectSeq(results, IsGood) IN [i \in 1..Len(g) |-> g[i].procs]

\* good = [r['procs'] for r in results if 'procs' in r]
Good(results) ==
  LET g == SelectSeq(results, IsGood) IN [i \in 1..Len(g) |-> g[i].procs]

\* brokens = [r['broken'] for r in results if 'broken' in r]
Brokens(results) ==
  LET b == SelectSeq(results, IsBroken) IN [i \in 1..Len(b) |-> b[i].broken]

\* The flattening as it would be if it kept the last host's list only.
FlattenLast(good) == IF good = <<>> THEN <<>> ELSE good[Len(good)]

\* procs = [j for sub in good for j in sub]
Flatten(good) == Cat(good)

\* The test as it would be if float() took every text for a number.
SortRaisesNever(procs) == \E i \in 1..Len(procs) : FALSE

\* float(p.cpu) raises ValueError for some process of the list.
SortRaises(procs) == \E i \in 1..Len(procs) : ~FloatOf[procs[i].cpu].ok

\* The sort key of a process.
Key(p) == FloatOf[p.cpu]

\* The order as it would be if the sort were not stable: among equal keys
\* the later process first.
PrecedesLater(procs, j, i) ==
  \/ FloatLess(FloatOf[procs[i].cpu], FloatOf[procs[j].cpu])
  \/ FloatEq(FloatOf[procs[i].cpu], FloatOf[procs[j].cpu]) /\ j > i

\* In the sorted list the process at position j of procs stands before the
\* one at position i: its key is greater, or equal and it came first.
Precedes(procs, j, i) ==
  \/ FloatLess(Key(procs[i]), Key(procs[j]))
  \/ FloatEq(Key(procs[i]), Key(procs[j])) /\ j < i

\* procs.sort(key=lambda p: float(p.cpu), reverse=True): descending by key;
\* list.sort is stable, also with reverse=True.
SortByCpu(procs) ==
  LET n == Len(procs)
      Rank(i) == 1 + Cardinality({j \in 1..n : Precedes(procs, j, i)})
  IN  [k \in 1..n |-> procs[CHOOSE i \in 1..n : Rank(i) = k]]

\* ------------------------------------------------------------------ print
\* The columns of print_procs in their order, the side each is padded to
\* ('<' pads on the right, '>' on the left) and the header label of each,
\* which is the name of the attribute.
FieldNames ==
  <<"host", "pid", "user", "pr", "nice", "virt", "res", "shr", "s", "cpu",
    "mem", "time", "cmd">>
FieldSide ==
  [host |-> "<", pid |-> ">", user |-> "<", pr |-> ">", nice |-> ">",
   virt |-> ">", res |-> ">", shr |-> ">", s |-> ">", cpu |-> ">",
   mem |-> ">", time |-> ">", cmd |-> "<"]
FieldLabel ==
  [host |-> <<"h", "o", "s", "t">>, pid |-> <<"p", "i", "d">>,
   user |-> <<"u", "s", "e", "r">>, pr |-> <<"p", "r">>,
   nice |-> <<"n", "i", "c", "e">>, virt |-> <<"v", "i", "r", "t">>,
   res |-> <<"r", "e", "s">>, shr |-> <<"s", "h", "r">>, s |-> <<"s">>,
   cpu |-> <<"c", "p", "u">>, mem |-> <<"m", "e", "m">>,
   time |-> <<"t", "i", "m", "e">>, cmd |-> <<"c", "m", "d">>]

\* max() of a finite non-empty set of numbers.
MaxOf(S) == CHOOSE m \in S : \A x \in S : x <= m

Min(a, b) == IF a < b THEN a ELSE b

\* The width as it would be if the header were left out of the maximum.
ColumnWidthValuesOnly(f, procs) ==
  MaxOf({0} \cup {Len(procs[i][f]) : i \in 1..Len(procs)})

\* max([len(f)] + [len(getattr(p, f)) for p in procs])
ColumnWidth(f, procs) ==
  MaxOf({Len(FieldLabel[f])} \cup {Len(procs[i][f]) : i \in 1..Len(procs)})

Spaces(n) == [i \in 1..n |-> " "]

\* "{val:{s}{w}}".format(...): val padded with spaces to the width w.
Format(val, side, w) ==
  IF Len(val) >= w THEN val
  ELSE IF side = "<" THEN val \o Spaces(w - Len(val))
  ELSE Spaces(w - Len(val)) \o val

\* The header line: the labels, padded, joined by " | ".
HeaderText(procs) ==
  Join(<<" ", "|", " ">>,
       [k \in 1..Len(FieldNames) |->
          Format(FieldLabel[FieldNames[k]], FieldSide[FieldNames[k]],
                 ColumnWidth(FieldNames[k], procs))])

\* The line of one process: its values, padded, joined by three spaces.
RowText(p, procs) ==
  Join(<<" ", " ", " ">>,
       [k \in 1..Len(FieldNames) |->
          Format(p[FieldNames[k]], FieldSide[FieldNames[k]],
                 ColumnWidth(FieldNames[k], procs))])

\* "Broken Hosts: {}".format(", ".join(broken_procs))
FooterText(broken_procs) ==
  <<"B", "r", "o", "k", "e", "n", " ", "H", "o", "s", "t", "s", ":", " ">>
    \o Join(<<",", " ">>, broken_procs)

\* The Python slice list[:stop]: a negative stop counts from the end.
SliceTo(list, stop) ==
  IF stop >= 0 THEN SubSeq(list, 1, Min(stop, Len(list)))
  ELSE SubSeq(list, 1, Len(list) + stop)

\* The number of process lines print_procs writes on a window of y rows:
\* len(procs[:y - 3]).
DataRows(y, n) == IF y - 3 >= 0 THEN Min(y - 3, n) ELSE IF n + (y - 3) > 0 THEN n + (y - 3) ELSE 0

\* stdscr.addnstr(row, 0, text, n) raises curses.error when the row is not a
\* row of the window.  print_procs writes row 0, row 1, the rows from 2 on
\* for the processes, and row y - 1.
DrawRaises(term, n) == term.y < 2 \/ DataRows(term.y, n) + 2 > term.y

\* addnstr writes at most n characters of the text.
Clip(text, n) == SubSeq(text, 1, Min(n, Len(text)))

\* print_procs(stdscr, procs, broken_procs) on a window of term.y rows and
\* term.x columns that was cleared before, when no addnstr raises: the
\* column widths and the text of every row of the window.  procs and broken
\* are the two lists it was handed.
print_procs(term, procs, broken_procs) ==
  LET y == term.y
      x == term.x - 1
      shown == SliceTo(procs, y - 3)
  IN  [drawn |-> TRUE, procs |-> procs, broken |-> broken_procs,
       widths |-> [k \in 1..Len(FieldNames) |-> ColumnWidth(FieldNames[k], procs)],
       win |-> [r \in 0..(y - 1) |->
                  IF r = y - 1 THEN Clip(FooterText(broken_procs), x)
                  ELSE IF r = 0 THEN Clip(HeaderText(procs), x)
                  ELSE IF r = 1 THEN Clip([i \in 1..x |-> "-"], x)
                  ELSE IF r - 1 <= Len(shown) THEN Clip(RowText(shown[r - 1], procs), x)
                  ELSE <<>>]]

\* ------------------------------------------------------------------ state
VARIABLES
  hosts,      \* options.hosts
  pc,         \* where the main process is
  taskq,      \* the pool's task queue, first in first out
  running,    \* the tasks the pool's workers are running
  chan,       \* per host: the state of its multiplexing master
  arrived,    \* the results of the cycle's imap_unordered, in completion order
  results,    \* main's list 'results' once collected
  screen,     \* what the last print_procs drew
  keyBuf,     \* a key is waiting in the terminal's input
  errStream,  \* what was written to stderr
  term,       \* the size of the terminal: stdscr.getmaxyx()
  probe       \* FetchSpec only: the reply ssh is going to give

vars ==
  <<hosts, pc, taskq, running, chan, arrived, results, screen, keyBuf,
    errStream, term, probe>>

N == Len(hosts)

\* The tasks of pool.map / pool.imap_unordered over options.hosts with
\* chunksize 1: one per host, in the order of the list.
Tasks(fn) == [i \in 1..N |-> [fn |-> fn, idx |-> i]]

\* The main process is inside main's while loop.
Polling == pc \in {"dispatch", "getch", "collect", "merge"}
\* The interpreter has ended: normally, or with a traceback.
Terminated == pc \in {"done", "crashed"}

\* The terminal before the first print_procs, and after curses.wrapper has
\* restored it (endwin) when main returns or raises.
NoScreen == [drawn |-> FALSE]

\* The terminal of the session: five rows, forty columns.
SessionTerm == [y |-> 5, x |-> 40]

\* No reply is fixed beforehand.
NoProbe == [rc |-> 0, out |-> <<>>, err |-> <<>>]

Init ==
  /\ hosts \in {SubSeq(HostNames, 1, n) : n \in 0..MaxHosts}
  /\ pc = "pool"
  /\ taskq = <<>>
  /\ running = {}
  /\ chan = [i \in 1..Len(hosts) |-> "none"]
  /\ arrived = <<>>
  /\ results = <<>>
  /\ screen = NoScreen
  /\ keyBuf = FALSE
  /\ errStream = <<>>
  /\ term = SessionTerm
  /\ probe = NoProbe

\* ------------------------------------------------------------------ main
\* pool = multiprocessing.Pool(len(options.hosts)): Pool raises ValueError
\* for a size below 1.  Otherwise mkdir, then pool.map(prepssh, hosts) puts
\* its tasks in the queue.
CreatePool ==
  /\ pc = "pool"
  /\ IF N < 1
     THEN /\ pc' = "crashed"
          /\ UNCHANGED taskq
     ELSE /\ pc' = "setup"
          /\ taskq' = taskq \o Tasks("prepssh")
  /\ UNCHANGED <<term, probe, hosts, running, chan, arrived, results, screen, keyBuf,
                 errStream>>

\* The setup as it would be with map_async: main goes on without waiting for
\* the prepssh tasks.
SetupNoWait ==
  /\ pc = "setup"
  /\ pc' = "dispatch"
  /\ UNCHANGED <<term, probe, hosts, taskq, running, chan, arrived, results, screen,
                 keyBuf, errStream>>

\* pool.map(prepssh, ...) returns once every prepssh has returned; then
\* wrapper(main) enters the loop.
SetupDone ==
  /\ pc = "setup"
  /\ \A i \in 1..N : chan[i] # "none"
  /\ pc' = "dispatch"
  /\ UNCHANGED <<term, probe, hosts, taskq, running, chan, arrived, results, screen,
                 keyBuf, errStream>>

\* results = pool.imap_unordered(getprocs, options.hosts, chunksize = 1)
Dispatch ==
  /\ pc = "dispatch"
  /\ taskq' = taskq \o Tasks("getprocs")
  /\ arrived' = <<>>
  /\ results' = <<>>
  /\ pc' = "getch"
  /\ UNCHANGED <<term, probe, hosts, running, chan, screen, keyBuf, errStream>>

\* The check of the key as it would be if main read the key and went on.
GetchKeyGoesOn ==
  /\ pc = "getch"
  /\ keyBuf
  /\ keyBuf' = FALSE
  /\ pc' = "collect"
  /\ UNCHANGED <<term, probe, hosts, taskq, running, chan, arrived, results, screen,
                 errStream>>

\* stdscr.getch() != -1: a key was pressed, main returns.
GetchKey ==
  /\ pc = "getch"
  /\ keyBuf
  /\ keyBuf' = FALSE
  /\ pc' = "stopped"
  /\ arrived' = <<>>
  /\ results' = <<>>
  /\ screen' = NoScreen
  /\ UNCHANGED <<term, probe, hosts, taskq, running, chan, errStream>>

\* stdscr.getch() gives -1 after its timeout: no key.
GetchTimeout ==
  /\ pc = "getch"
  /\ ~keyBuf
  /\ pc' = "collect"
  /\ UNCHANGED <<term, probe, hosts, taskq, running, chan, arrived, results, screen,
                 keyBuf, errStream>>

\* The collection as it would be if the iterator ended with the results
\* that have arrived so far.
CollectNoWait ==
  /\ pc = "collect"
  /\ results' = arrived
  /\ pc' = "merge"
  /\ UNCHANGED <<term, probe, hosts, taskq, running, chan, arrived, screen, keyBuf,
                 errStream>>

\* results = [r for r in results]: the iterator ends after one result per
\* task; main is blocked until then.
Collect ==
  /\ pc = "collect"
  /\ Len(arrived) = N
  /\ results' = arrived
  /\ pc' = "merge"
  /\ UNCHANGED <<term, probe, hosts, taskq, running, chan, arrived, screen, keyBuf,
                 errStream>>

\* Lines 204-220 when float() raises ValueError in the sort, or addnstr
\* raises curses.error in print_procs: the exception leaves main and
\* wrapper, which restores the terminal, and ends the script before the
\* teardown line.
MergeRaise ==
  /\ pc = "merge"
  /\ \/ SortRaises(Flatten(Good(results)))
     \/ DrawRaises(term, Len(Flatten(Good(results))))
  /\ pc' = "crashed"
  /\ screen' = NoScreen
  /\ UNCHANGED <<term, probe, hosts, taskq, running, chan, arrived, results, keyBuf,
                 errStream>>

\* Lines 204-223: partition, flatten, sort, clear, print_procs, refresh.
MergeRender ==
  /\ pc = "merge"
  /\ ~SortRaises(Flatten(Good(results)))
  /\ ~DrawRaises(term, Len(Flatten(Good(results))))
  /\ \E procs \in {SortByCpu(Flatten(Good(results)))} :
       \E broken_procs \in {Brokens(results)} :
         screen' = print_procs(term, procs, broken_procs)
  /\ pc' = "dispatch"
  /\ UNCHANGED <<term, probe, hosts, taskq, running, chan, arrived, results, keyBuf,
                 errStream>>

\* After wrapper(main) has returned: pool.map(cleanssh, options.hosts).
TeardownSubmit ==
  /\ pc = "stopped"
  /\ taskq' = taskq \o Tasks("cleanssh")
  /\ pc' = "teardown"
  /\ UNCHANGED <<term, probe, hosts, running, chan, arrived, results, screen, keyBuf,
                 errStream>>

\* pool.map(cleanssh, ...) returns once every cleanssh has returned; the
\* script ends.
TeardownDone ==
  /\ pc = "teardown"
  /\ \A i \in 1..N : chan[i] = "closed"
  /\ pc' = "done"
  /\ UNCHANGED <<term, probe, hosts, taskq, running, chan, arrived, results, screen,
                 keyBuf, errStream>>

\* ------------------------------------------------------------------ pool
\* A free worker of the pool takes the oldest task of the queue.  The pool
\* has len(options.hosts) workers.
WorkerTake ==
  /\ ~Terminated
  /\ taskq # <<>>
  /\ Cardinality(running) < N
  /\ running' = running \cup {Head(taskq)}
  /\ taskq' = Tail(taskq)
  /\ UNCHANGED <<term, probe, hosts, pc, chan, arrived, results, screen, keyBuf,
                 errStream>>

\* prepssh as it would be if a master that failed to start ended the script.
PrepFinishAbort(t, ok) ==
  /\ ~Terminated
  /\ t \in running /\ t.fn = "prepssh"
  /\ running' = running \ {t}
  /\ chan' = [chan EXCEPT ![t.idx] = IF ok THEN "open" ELSE "failed"]
  /\ pc' = IF ok THEN pc ELSE "crashed"
  /\ UNCHANGED <<term, probe, hosts, taskq, arrived, results, screen, keyBuf,
                 errStream>>

\* prepssh(host) returns: ssh has gone to the background as master, or has
\* failed.
PrepFinish(t, ok) ==
  /\ ~Terminated
  /\ t \in running /\ t.fn = "prepssh"
  /\ running' = running \ {t}
  /\ chan' = [chan EXCEPT ![t.idx] = IF ok THEN "open" ELSE "failed"]
  /\ UNCHANGED <<term, probe, hosts, pc, taskq, arrived, results, screen, keyBuf,
                 errStream>>

\* The result of a task reaches the iterator of its imap_unordered call;
\* once main has left the loop nobody reads that iterator.
Deliver(r) == IF Polling THEN Append(arrived, r) ELSE arrived

\* getprocs(host) ends in a worker, on what ssh gave back: it returns a
\* result, or sys.exit(1) ends the worker, which the pool replaces, and
\* the task has no result.
FetchFinish(t, reply) ==
  /\ ~Terminated
  /\ t \in running /\ t.fn = "getprocs"
  /\ running' = running \ {t}
  /\ LET r == GetprocsOf[hosts[t.idx], reply]
     IN  IF Exited(r)
         THEN /\ errStream' = Append(errStream, [host |-> r.host, line |-> r.line])
              /\ UNCHANGED arrived
         ELSE /\ arrived' = Deliver(r)
              /\ UNCHANGED errStream
  /\ UNCHANGED <<term, probe, hosts, pc, taskq, chan, results, screen, keyBuf>>

\* cleanssh(host) returns: the master of the host is gone.
CleanFinish(t) ==
  /\ ~Terminated
  /\ t \in running /\ t.fn = "cleanssh"
  /\ running' = running \ {t}
  /\ chan' = [chan EXCEPT ![t.idx] = "closed"]
  /\ UNCHANGED <<term, probe, hosts, pc, taskq, arrived, results, screen, keyBuf,
                 errStream>>

\* ------------------------------------------------------------------ user
\* The user presses a key; it waits in the terminal's input until getch.
KeyPress ==
  /\ ~Terminated
  /\ ~keyBuf
  /\ keyBuf' = TRUE
  /\ UNCHANGED <<term, probe, hosts, pc, taskq, running, chan, arrived, results, screen,
                 errStream>>

AllTasks == {[fn |-> f, idx |-> i] : f \in {"prepssh", "getprocs", "cleanssh"}, i \in 1..N}

Next ==
  \/ CreatePool
  \/ SetupDone
  \/ Dispatch
  \/ GetchKey
  \/ GetchTimeout
  \/ Collect
  \/ MergeRaise
  \/ MergeRender
  \/ TeardownSubmit
  \/ TeardownDone
  \/ WorkerTake
  \/ \E t \in AllTasks, ok \in BOOLEAN : PrepFinish(t, ok)
  \/ \E t \in AllTasks, reply \in Replies : FetchFinish(t, reply)
  \/ \E t \in AllTasks : CleanFinish(t)
  \/ KeyPress

Spec == Init /\ [][Next]_vars

\* ------------------------------------------------------------------ fairness
\* The main process is one sequential program: it takes its next step
\* whenever that step is possible.
MainStep ==
  \/ CreatePool
  \/ SetupDone
  \/ Dispatch
  \/ GetchKey
  \/ GetchTimeout
  \/ Collect
  \/ MergeRaise
  \/ MergeRender
  \/ TeardownSubmit
  \/ TeardownDone

\* The pool hands a queued task to a free worker, and the local ssh commands
\* of prepssh and cleanssh return.  The remote top of a fetch may never
\* return, and the user may never press a key.
FairSpec ==
  /\ Spec
  /\ WF_vars(MainStep)
  /\ WF_vars(WorkerTake)
  /\ WF_vars(\E t \in AllTasks, ok \in BOOLEAN : PrepFinish(t, ok))
  /\ WF_vars(\E t \in AllTasks : CleanFinish(t))

\* As FairSpec, and every remote top returns.
FairSpecAll ==
  /\ FairSpec
  /\ WF_vars(\E t \in AllTasks, reply \in Replies : FetchFinish(t, reply))

\* ------------------------------------------------------------------ merge alone
\* The orders in which the results of n hosts can complete.
Orders(n) == {f \in [1..n -> 1..n] : \A i, j \in 1..n : f[i] = f[j] => i = j}

\* The replies after which getprocs returns a result.
ReturningReplies == {r \in AllReplies : ~Exited(GetprocsOf[HostA, r])}

\* The main process at line 204 with the collected results of one cycle:
\* one result per host, in any completion order.
MergeInit ==
  /\ \E n \in 1..MaxMergeHosts :
       /\ hosts = SubSeq(HostNames, 1, n)
       /\ \E order \in Orders(n), reply \in [1..n -> ReturningReplies] :
            results = [k \in 1..n |-> GetprocsOf[HostNames[order[k]], reply[order[k]]]]
       /\ chan = [i \in 1..n |-> "open"]
  /\ arrived = results
  /\ pc = "merge"
  /\ taskq = <<>>
  /\ running = {}
  /\ screen = NoScreen
  /\ keyBuf = FALSE
  /\ errStream = <<>>
  /\ term = SessionTerm
  /\ probe = NoProbe

MergeNext == MergeRaise \/ MergeRender

MergeSpec == MergeInit /\ [][MergeNext]_vars

\* ------------------------------------------------------------------ render alone
\* The sizes of the terminal.
Terms == [y : 1..MaxHeight, x : {12, 80}]

\* The main process at line 204 with the collected results of one cycle, on
\* a terminal of any of the sizes.
RenderInit ==
  /\ \E n \in 1..MaxRenderHosts :
       /\ hosts = SubSeq(HostNames, 1, n)
       /\ \E order \in Orders(n), reply \in [1..n -> ReturningReplies] :
            results = [k \in 1..n |-> GetprocsOf[HostNames[order[k]], reply[order[k]]]]
       /\ chan = [i \in 1..n |-> "open"]
  /\ arrived = results
  /\ pc = "merge"
  /\ taskq = <<>>
  /\ running = {}
  /\ screen = NoScreen
  /\ keyBuf = FALSE
  /\ errStream = <<>>
  /\ term \in Terms
  /\ probe = NoProbe

RenderSpec == RenderInit /\ [][MergeNext]_vars

\* ------------------------------------------------------------------ fetch alone
\* One host whose getprocs task runs in the worker, with the reply ssh is
\* going to give, and the main process waiting for the result.
FetchInit ==
  /\ \E h \in {HostA, HostB} : hosts = <<h>>
  /\ probe \in ProbeReplies
  /\ pc = "collect"
  /\ taskq = <<>>
  /\ running = {[fn |-> "getprocs", idx |-> 1]}
  /\ chan = <<"open">>
  /\ arrived = <<>>
  /\ results = <<>>
  /\ screen = NoScreen
  /\ keyBuf = FALSE
  /\ errStream = <<>>
  /\ term = SessionTerm

\* The fetch ends on the reply, and the main process collects its result.
FetchNext ==
  \/ \E t \in AllTasks : FetchFinish(t, probe)
  \/ Collect

FetchSpec == FetchInit /\ [][FetchNext]_vars

\* ------------------------------------------------------------------ claims
\* The tasks of function fn that are queued or running.
Outstanding(fn) ==
  {t \in running : t.fn = fn} \cup {taskq[i] : i \in {j \in 1..Len(taskq) : taskq[j].fn = fn}}

AllClosed == \A i \in 1..N : chan[i] = "closed"

\* The positions of a list that hold a failure, and those that hold records.
FailedAt(rs) == {i \in 1..Len(rs) : IsBroken(rs[i])}
GoodAt(rs) == {i \in 1..Len(rs) : IsGood(rs[i])}

\* How often x occurs in the list s.
Count(s, x) == Cardinality({i \in 1..Len(s) : s[i] = x})

\* C1: a host whose remote command failed does not abort the cycle.  When the
\* collected results of a cycle hold a failure (and no record whose %CPU is
\* no number, which is the fatal case of another host), the step that follows
\* draws the records of every other host, lists every failed host in the
\* footer, and leaves the loop at the start of its next cycle.
C1_FailureIsolated ==
  [][(/\ pc = "merge" /\ pc' # "merge"
      /\ FailedAt(results) # {}
      /\ \A i \in GoodAt(results) : \A k \in 1..Len(results[i].procs) :
           ParseFloat(results[i].procs[k].cpu).ok)
     => /\ pc' = "dispatch"
        /\ screen'.drawn
        /\ \A i \in FailedAt(results) : Count(screen'.broken, results[i].broken) >= 1
        /\ \A i \in GoodAt(results) : \A k \in 1..Len(results[i].procs) :
             Count(screen'.procs, results[i].procs[k]) >= 1]_vars

\* The loop has started its next cycle with a screen that shows the records
\* of one host and the failure of another.
C1_Witness ==
  /\ pc = "getch"
  /\ screen.drawn
  /\ screen.broken # <<>>
  /\ screen.procs # <<>>

\* C3 as claimed: with no host on the command line the session starts and
\* runs without failure.
C3_ZeroHostsRun == (N = 0) => pc # "crashed"

\* C7 as claimed: however the session has ended, teardown has run for every
\* host.
C7_TeardownOnEveryExit == Terminated => AllClosed

\* The result r is the result of the host h.
ResultOf(r, h) ==
  /\ IsBroken(r) => Len(r.broken) >= Len(h) /\ SubSeq(r.broken, 1, Len(h)) = h
  /\ IsGood(r) => \A k \in 1..Len(r.procs) : r.procs[k].host = h

\* C5: the collected results of a cycle hold one entry per host of the host
\* list, each either records or a failure and never both; while they arrive
\* there is never more than one per host.
C5_OneResultPerHost ==
  /\ Len(arrived) <= N
  /\ \A i \in 1..Len(arrived) : IsGood(arrived[i]) # IsBroken(arrived[i])
  /\ (pc = "merge" \/ (pc = "dispatch" /\ screen.drawn)) =>
       /\ Len(results) = N
       /\ \A i \in 1..N : DOMAIN results[i] \in {{"procs"}, {"broken"}}
       /\ \E f \in Orders(N) : \A i \in 1..N : ResultOf(results[f[i]], hosts[i])

\* The collected results of two hosts: the records of one, the failure of
\* the other.
C5_Witness ==
  /\ pc = "merge"
  /\ N = 2
  /\ FailedAt(results) # {}
  /\ GoodAt(results) # {}

\* C6: when fetches are dispatched, prepssh has returned for every host and
\* no teardown has started; a channel is closed only after the loop was left.
C6_SetupBeforeTeardownAfter ==
  [][/\ (Outstanding("getprocs")' \ Outstanding("getprocs") # {}) =>
          /\ \A i \in 1..N : chan[i] \in {"open", "failed"}
          /\ Outstanding("cleanssh") = {}
          /\ pc \notin {"stopped", "teardown", "done"}
     /\ \A i \in 1..N : (chan'[i] = "closed" /\ chan[i] # "closed") => pc = "teardown"
     /\ (Outstanding("cleanssh")' # {}) => pc' \in {"teardown", "done"}]_vars

\* A channel has been closed by teardown while a fetch dispatched before the
\* keypress is still running.
C6_Witness ==
  /\ pc = "teardown"
  /\ \E i \in 1..N : chan[i] = "closed"
  /\ \E t \in running : t.fn = "getprocs"

\* C9: the drawn records are in descending order of float(cpu), and the
\* records of one cpu value are in the order they have in the flattened
\* results.
C9_SortedStable ==
  screen.drawn =>
    LET flat == Cat([i \in 1..Len(results) |->
                       IF IsGood(results[i]) THEN results[i].procs ELSE <<>>])
        out == screen.procs
        SameKey(p) == LET Eq(q) == FloatEq(ParseFloat(q.cpu), ParseFloat(p.cpu))
                      IN  SelectSeq(out, Eq) = SelectSeq(flat, Eq)
    IN  /\ Len(out) = Len(flat)
        /\ \A i \in 1..Len(out) : \A j \in (i + 1)..Len(out) :
             ~FloatLess(ParseFloat(out[i].cpu), ParseFloat(out[j].cpu))
        /\ \A i \in 1..Len(flat) : SameKey(flat[i])

\* The sort has moved a record, and two records of different hosts whose
\* cpu texts differ ("9.5", "9.50") and denote the same number are drawn.
C9_Witness ==
  /\ screen.drawn
  /\ screen.procs # Flatten(Good(results))
  /\ \E i, j \in 1..Len(screen.procs) :
       /\ i < j
       /\ screen.procs[i].cpu # screen.procs[j].cpu
       /\ screen.procs[i].host # screen.procs[j].host
       /\ FloatEq(ParseFloat(screen.procs[i].cpu), ParseFloat(screen.procs[j].cpu))

\* The record of the example: one process of 10 or 90 percent.
ExampleRecord(h, reply) == getprocs(h, reply).procs[1]
ExampleFailure == Cat(<<HostC, <<":", " ", "'", "t", "i", "m", "e", "o", "u", "t", "'">>>>)

\* The results of the example, in some completion order.
ExampleResults ==
  /\ Len(results) = 3
  /\ \E f \in Orders(3) :
       /\ results[f[1]] = [procs |-> <<ExampleRecord(HostA, ReplyTen)>>]
       /\ results[f[2]] = [procs |-> <<ExampleRecord(HostB, ReplyNinety)>>]
       /\ results[f[3]] = [broken |-> ExampleFailure]

\* C10: the drawn records are the records of the successful results, each as
\* often as it occurs there, and the drawn failures are the failures of the
\* results, one each, in the order of collection; the example of the spec
\* gives the record of hostB, then that of hostA, and the failure of hostC.
C10_MergePartitions ==
  screen.drawn =>
    /\ \A i \in GoodAt(results) : \A k \in 1..Len(results[i].procs) :
         LET x == results[i].procs[k]
             Occ(j) == IF j \in GoodAt(results) THEN Count(results[j].procs, x) ELSE 0
             Sum[j \in 0..Len(results)] == IF j = 0 THEN 0 ELSE Sum[j - 1] + Occ(j)
         IN  Count(screen.procs, x) = Sum[Len(results)]
    /\ \A k \in 1..Len(screen.procs) :
         \E i \in GoodAt(results) : Count(results[i].procs, screen.procs[k]) >= 1
    /\ Len(screen.broken) = Cardinality(FailedAt(results))
    /\ \A k \in 1..Len(screen.broken) :
         screen.broken[k] = results[Nth(FailedAt(results), k)].broken
    /\ ExampleResults =>
         /\ screen.procs = <<ExampleRecord(HostB, ReplyNinety), ExampleRecord(HostA, ReplyTen)>>
         /\ screen.broken = <<ExampleFailure>>

\* The example of the spec has been merged and drawn.
C10_Witness == screen.drawn /\ ExampleResults

\* C2 as claimed: once the loop has stopped with fetches of the cycle still
\* outstanding, teardown completes for every host, whether or not those
\* fetches ever finish.
C2_TeardownDespiteFetches ==
  (pc = "stopped" /\ Outstanding("getprocs") # {}) ~> AllClosed

\* C8 as claimed: a key pressed while the loop is polling leads out of the
\* loop, whether or not the fetches of the cycle ever return.  (Sessions in
\* which a worker has exited on a short line are left aside here: they are
\* the case of C4.)
C8_KeypressStops ==
  (keyBuf /\ Polling /\ errStream = <<>>) ~> (~Polling \/ errStream # <<>>)

\* C4 as claimed: after a process line with under 12 fields was fetched (and
\* reported to stderr) the session comes to an end.
C4_MalformedTerminates == (errStream # <<>>) ~> Terminated

\* The records of a list of results, and whether float() accepts the cpu of
\* each of them.
RecordsOf(rs) == Flatten(Good(rs))
AllCpuNumeric(rs) == \A i \in 1..Len(RecordsOf(rs)) : ParseFloat(RecordsOf(rs)[i].cpu).ok

\* The rows of the window between the separator and the footer that hold
\* text.
DataRowsOn(win) == {r \in DOMAIN win : r >= 2 /\ r # term.y - 1 /\ win[r] # <<>>}

\* C11: for every height h of the viewport and every number k > h - 3 of
\* records, the render draws the first h - 3 sorted records on the rows 2 to
\* h - 2 and omits the rest without an error; no row of a record is on the
\* footer's row or outside the viewport.  (Here, for the heights from 2 on,
\* which hold the header and the separator: once the merge of a cycle whose
\* cpu values are all numeric is over, the screen is drawn and its rows of
\* records are exactly the rows 2 to h - 2.)
C11_ClippedToViewport ==
  (/\ pc # "merge"
   /\ term.y >= 2
   /\ AllCpuNumeric(results)
   /\ Len(RecordsOf(results)) > term.y - 3)
    => /\ pc # "crashed"
       /\ screen.drawn
       /\ DOMAIN screen.win = 0..(term.y - 1)
       /\ DataRowsOn(screen.win) = 2..(term.y - 2)
       /\ \A r \in 2..(term.y - 2) :
            screen.win[r] = Clip(RowText(screen.procs[r - 1], screen.procs), term.x - 1)

\* The positions of a line at which a field begins, and the text of the
\* line from its twelfth field to the end of its last field.
FieldStarts(line) ==
  {i \in 1..Len(line) : line[i] \notin Whitespace /\ (i = 1 \/ line[i - 1] \in Whitespace)}
TailText(line) ==
  LET start == CHOOSE i \in FieldStarts(line) :
                 Cardinality({j \in FieldStarts(line) : j < i}) = 11
  IN  SubSeq(line, start, Len(Rstrip(line)))

\* A text whose only whitespace is single spaces between words.
SingleSpaced(t) ==
  \A j \in 1..Len(t) :
    t[j] \in Whitespace => t[j] = " " /\ 1 < j /\ j < Len(t) /\ t[j - 1] \notin Whitespace

\* The fetch of the probed reply has returned records.
Parsed == probe.rc = 0 /\ running = {} /\ arrived # <<>> /\ IsGood(arrived[1])

\* C12 as stated: for every line of at least 12 fields, the command of the
\* parsed record is the text of the line from field 12 on, exactly,
\* embedded whitespace included.
C12_CommandRoundTrip ==
  Parsed =>
    \A i \in 1..Len(arrived[1].procs) :
      arrived[1].procs[i].cmd = TailText(ProcLines(probe.out)[i])

\* C12, amended: for every line of at least 12 fields, the command of the
\* parsed record holds the words of the line from field 12 on, in their
\* order, with one space between two words; it is the text of the line from
\* field 12 on exactly when that text has nothing but single spaces between
\* its words.
C12_CommandSingleSpaced ==
  Parsed =>
    \A i \in 1..Len(arrived[1].procs) :
      LET cmd == arrived[1].procs[i].cmd
          tail == TailText(ProcLines(probe.out)[i])
      IN  /\ Split(cmd) = Split(tail)
          /\ SingleSpaced(cmd)
          /\ SingleSpaced(tail) <=> cmd = tail

\* A line whose command had a tab or a run of spaces has been parsed, and
\* one whose command had single spaces.
C12_Witness ==
  /\ Parsed
  /\ Len(arrived[1].procs) = 1
  /\ Len(Split(arrived[1].procs[1].cmd)) >= 2
  /\ arrived[1].procs[1].cmd # TailText(ProcLines(probe.out)[1])

\* The probed reply is output of top in which a process line has under 12
\* fields.
ShortProbe ==
  /\ probe.rc = 0
  /\ \E i \in 1..Len(ProcLines(probe.out)) :
       Cardinality(FieldStarts(ProcLines(probe.out)[i])) < 12

\* A record all of whose attributes hold text.
Complete(p) == \A k \in 1..Len(FieldNames) : p[FieldNames[k]] # <<>>

\* C13: a process line with under 12 fields always gives the fatal parse
\* error and never a record: once the fetch of such output has ended, the
\* line was reported on stderr for the host, the fetch has no result, and
\* nothing of it reaches the merge; no record with an empty attribute is in
\* a host's result.
C13_ShortLineFatal ==
  /\ (ShortProbe /\ running = {})
       => /\ arrived = <<>> /\ results = <<>> /\ pc = "collect"
          /\ Len(errStream) = 1
          /\ errStream[1].host = hosts[1]
          /\ Cardinality(FieldStarts(errStream[1].line)) < 12
  /\ \A i \in 1..Len(arrived) :
       IsGood(arrived[i]) => \A k \in 1..Len(arrived[i].procs) : Complete(arrived[i].procs[k])

\* The fetch of output whose process line has eleven fields has ended.
C13_Witness ==
  /\ ShortProbe /\ running = {}
  /\ errStream # <<>>
  /\ Cardinality(FieldStarts(errStream[1].line)) = 11

\* The reason the claim names for a failure without text on stderr.
UnknownError == <<"U", "n", "k", "n", "o", "w", "n", " ", "E", "r", "r", "o", "r">>

\* C15: the fetch of a remote command that exits non-zero returns a failure
\* of that host whose reason is the text of stderr (without the whitespace
\* around it), or "Unknown Error" when stderr is empty, and no records,
\* whatever was written to stdout.
C15_FailureReason ==
  (probe.rc # 0 /\ running = {})
    => /\ errStream = <<>>
       /\ arrived =
            <<[broken |->
                 BrokenText(hosts[1],
                            IF probe.err = <<>> THEN UnknownError ELSE Strip(probe.err))]>>

\* The footer of the screen names the host h as broken.
InFooter(scr, h) ==
  \E k \in 1..Len(scr.broken) :
    Len(scr.broken[k]) >= Len(h) /\ SubSeq(scr.broken[k], 1, Len(h)) = h

\* C14 as stated, its last part: a host whose channel failed to be set up
\* is reported as a failure in every poll cycle, so every screen drawn
\* names it in the footer.
C14_FailedSetupStaysFailure ==
  screen.drawn => \A i \in 1..N : chan[i] = "failed" => InFooter(screen, hosts[i])

\* C14, amended: setup is best-effort.  The step in which the setup of one
\* host fails leaves the script in its setup with the setup of every host
\* not yet tried still queued or running; the setup ends by entering the
\* loop, with every host tried; and a cycle reports a host as a failure
\* exactly when the remote command of that cycle failed for it, whether the
\* setup of its channel had failed or not.
C14_SetupBestEffort ==
  [][/\ (\E i \in 1..N : chan[i] = "none" /\ chan'[i] = "failed")
          => /\ pc = "setup" /\ pc' = "setup"
             /\ \A j \in 1..N :
                  chan'[j] = "none" => [fn |-> "prepssh", idx |-> j] \in Outstanding("prepssh")'
     /\ (pc = "setup" /\ pc' # "setup")
          => /\ pc' = "dispatch"
             /\ \A j \in 1..N : chan[j] \in {"open", "failed"}
     /\ (pc = "merge" /\ pc' = "dispatch")
          => \A i \in 1..N :
               InFooter(screen', hosts[i])
                 <=> \E k \in 1..Len(results) :
                       IsBroken(results[k]) /\ ResultOf(results[k], hosts[i])]_vars

\* The loop runs after the setup of the first host failed and that of the
\* second succeeded, with a screen that shows records of the first host and
\* names no host as broken.
C14_Witness ==
  /\ N = 2
  /\ chan = <<"failed", "open">>
  /\ pc = "getch"
  /\ screen.drawn
  /\ screen.broken = <<>>
  /\ \E k \in 1..Len(screen.procs) : screen.procs[k].host = hosts[1]

\* The sum of the first n numbers of a list.
RECURSIVE SumTo(_, _)
SumTo(ws, n) == IF n = 0 THEN 0 ELSE ws[n] + SumTo(ws, n - 1)

\* C16: the width of every column of a rendered screen is the maximum of
\* the length of its header label and the lengths of the values of that
\* column over the records of the cycle that was rendered, and of nothing
\* else: it is at least each of them and equal to one of them, the records
\* are those of the results just merged, and the header line is as long as
\* the columns and their separators, or cut at the width of the terminal.
C16_ColumnWidths ==
  screen.drawn =>
    /\ \A k \in 1..Len(FieldNames) :
         LET f == FieldNames[k]
             w == screen.widths[k]
         IN  /\ w >= Len(FieldLabel[f])
             /\ \A i \in 1..Len(screen.procs) : w >= Len(screen.procs[i][f])
             /\ \/ w = Len(FieldLabel[f])
                \/ \E i \in 1..Len(screen.procs) : w = Len(screen.procs[i][f])
    /\ Len(screen.win[0]) =
         Min(term.x - 1, SumTo(screen.widths, Len(FieldNames)) + 3 * (Len(FieldNames) - 1))
    /\ pc = "dispatch" =>
         /\ Len(screen.procs) = Len(RecordsOf(results))
         /\ \A i \in 1..Len(screen.procs) : Count(RecordsOf(results), screen.procs[i]) >= 1

\* A cycle with records has just been rendered: the column of the pid is
\* as wide as its label, the column of the command as wide as its longest
\* value.
C16_Witness ==
  /\ pc = "dispatch"
  /\ screen.drawn
  /\ screen.procs # <<>>
  /\ screen.widths[2] = Len(FieldLabel["pid"])
  /\ \A i \in 1..Len(screen.procs) : Len(screen.procs[i].pid) < screen.widths[2]
  /\ screen.widths[13] > Len(FieldLabel["cmd"])

\* The fetch of the i-th host, and how many of it are queued or running.
FetchOf(i) == [fn |-> "getprocs", idx |-> i]
FetchesOf(i) == Count(taskq, FetchOf(i)) + (IF FetchOf(i) \in running THEN 1 ELSE 0)

\* C17: there is at most one fetch per host, queued or in flight, and at
\* most N in flight in total; and the cycles do not overlap: the step that
\* dispatches the fetches of a cycle is taken when no fetch of the cycle
\* before is queued or in flight, and queues one fetch per host.
C17_FetchesBounded ==
  [][/\ \A i \in 1..N : FetchesOf(i) <= 1 /\ FetchesOf(i)' <= 1
     /\ Cardinality({t \in running' : t.fn = "getprocs"}) <= N
     /\ (Outstanding("getprocs")' \ Outstanding("getprocs") # {})
          => /\ pc = "dispatch"
             /\ Outstanding("getprocs") = {}
             /\ \A i \in 1..N : FetchesOf(i)' = 1]_vars

\* A second cycle has been dispatched for two hosts: the screen of the
\* first is drawn, one fetch of the second is in flight and one is queued.
C17_Witness ==
  /\ N = 2
  /\ pc = "getch"
  /\ screen.drawn
  /\ FetchOf(1) \in running
  /\ Count(taskq, FetchOf(2)) = 1

\* The steps of the main process in the order of the claim, and the
\* positions after the cancellation was observed.
CycleOrder ==
  {<<"pool", "setup">>, <<"pool", "crashed">>, <<"setup", "dispatch">>,
   <<"dispatch", "getch">>, <<"getch", "collect">>, <<"getch", "stopped">>,
   <<"collect", "merge">>, <<"merge", "dispatch">>, <<"merge", "crashed">>,
   <<"stopped", "teardown">>, <<"teardown", "done">>}
Cancelled == pc \in {"stopped", "teardown", "done"}

\* C18: within a cycle the order is dispatch, one check for cancellation,
\* collection of every result, merge, render.  A screen is drawn only by
\* the merge step, when the result of every host of that cycle has been
\* collected and no fetch is left; the key is read only by the check after
\* the dispatch; and once the cancellation was observed nothing is
\* collected, merged, rendered or dispatched any more.
C18_CycleOrder ==
  [][/\ pc' # pc => <<pc, pc'>> \in CycleOrder
     /\ (keyBuf /\ ~keyBuf') => pc = "getch" /\ pc' = "stopped"
     /\ (screen' # screen /\ screen'.drawn)
          => /\ pc = "merge" /\ pc' = "dispatch"
             /\ results = arrived
             /\ Len(results) = N
             /\ \A i \in 1..N : \E k \in 1..N : ResultOf(results[k], hosts[i])
             /\ Outstanding("getprocs") = {}
     /\ Cancelled
          => /\ Cancelled'
             /\ arrived' = arrived /\ results' = results /\ screen' = screen
             /\ Outstanding("getprocs")' \subseteq Outstanding("getprocs")]_vars

\* The cancellation was observed when the fetch of the first host had ended
\* and that of the second was in flight.
C18_Witness ==
  /\ pc = "stopped"
  /\ N = 2
  /\ FetchOf(2) \in running
  /\ Count(taskq, FetchOf(1)) = 0 /\ FetchOf(1) \notin running
  /\ arrived = <<>>

\* C19: a record whose cpu is no number is fatal.  The merge step of a
\* cycle whose results hold such a record draws nothing and ends the
\* session with the error, whatever the other hosts returned, and after the
\* error the session takes no step: it does not go on with a next cycle.
C19_BadCpuFatal ==
  [][/\ (pc = "merge" /\ pc' # pc /\ ~AllCpuNumeric(results))
          => /\ pc' = "crashed"
             /\ ~screen'.drawn
     /\ pc # "crashed"]_vars

\* The session has ended with the error in a cycle in which one host
\* returned a record whose cpu is no number and the other a snapshot.
C19_Witness ==
  /\ pc = "crashed"
  /\ Len(results) = 2
  /\ ~AllCpuNumeric(results)
  /\ \E k \in 1..2 : IsGood(results[k]) /\ Len(results[k].procs) = 3

\* C20: the channel of a host is never torn down while a fetch that uses it
\* is in flight: while the fetch of a host whose channel is open runs in a
\* worker, cleanssh of that host does not run.
C20_NoTeardownUnderFetch ==
  \A i \in 1..N :
    (FetchOf(i) \in running /\ chan[i] = "open")
      => [fn |-> "cleanssh", idx |-> i] \notin running
====
